---- MODULE Spec2Model ----
(***************************************************************************)
(* Model of the market data relay server, server/server.cpp:               *)
(*   MarketDataServiceImpl::SendPrice    (ingestion, mutex guarded)        *)
(*   MarketDataServiceImpl::StreamPrices (per-call streaming loop)         *)
(*                                                                         *)
(* Prices are held in whole cents (100.00 is 10000).  A moving average is  *)
(* the exact quotient sum/size, kept as a reduced fraction <<num, den>>.   *)
(* Symbols are indices into SymbolNames, whose order is the                *)
(* lexicographic order std::map iterates in.                               *)
(***************************************************************************)
EXTENDS Integers, Sequences, FiniteSets, TLC

\* ------------------------------------------------------------------ bounds
NumCallers == 2     \* concurrent SendPrice callers
MaxFeed    == 21    \* ticks the feed sends in the ingestion specification
MaxVar     == 1     \* ticks of that feed that differ from the base tick
NumSessions == 2    \* concurrent StreamPrices calls
MaxSymbols  == 2    \* length of a PriceRequest's symbol list
MaxIter     == 2    \* loop iterations a session runs before its client cancels
MaxTime     == 1    \* seconds the clock advances over
MaxCalls    == 2    \* SendPrice calls in the specification of the whole server
MaxUpdates  == 2    \* updates all sessions emit in that specification
MaxWindow   == 5    \* longest window the average is computed of on its own

\* --------------------------------------------------------- program constants
WINDOW_SIZE == 20

SymbolNames == <<"BTCUSDT", "ETHUSDT">>
Symbols     == 1..Len(SymbolNames)
Prices      == {10000, 10150}
BaseSymbol  == 1
BasePrice   == 10000
Timestamps  == {17441}

Callers  == 1..NumCallers
NoCaller == 0

Sessions == 1..NumSessions

\* line 102: every requested symbol starts at $100.00
InitialPrice == 10000

\* std::rand() returns a value in 0..RAND_MAX
RAND_MAX == 32767

\* one dollar, the largest step the comment on line 120 allows
MaxStep == 100

VARIABLES
    price_mutex,      \* holder of price_mutex, NoCaller when free
    received_prices,  \* std::vector<PriceUpdate>
    price_window,     \* std::deque<double>
    stdout,           \* the "[gRPC Receive]" records printed so far
    sent,             \* number of SendPrice requests the feed has issued
    sp_pc,            \* position of each SendPrice call
    sp_req,           \* its request
    sp_n,             \* vector size read by push_back
    sp_status,        \* status of the caller's last completed call
    now,              \* std::time(0), in seconds
    rand_state,       \* state of the process-wide std::rand generator
    cancelled,        \* context->IsCancelled() of each StreamPrices call
    st_pc,            \* position of each StreamPrices call
    st_req,           \* its request: the list of symbols
    symbol_prices,    \* its std::map<std::string, double>
    st_it,            \* the key its iterator is at, NoSymbol at end()
    st_r,             \* generator state read by std::rand
    st_new,           \* its local new_price
    out,              \* the updates it handed to writer->Write, with the result
    st_status         \* the status it returned

ivars == <<price_mutex, received_prices, price_window, stdout, sent,
           sp_pc, sp_req, sp_n, sp_status>>

svars == <<now, rand_state, cancelled, st_pc, st_req, symbol_prices, st_it,
           st_r, st_new, out, st_status>>

vars == <<ivars, svars>>

\* ------------------------------------------------------------ pure helpers
Min(a, b) == IF a < b THEN a ELSE b

RECURSIVE GCD(_, _)
GCD(a, b) == IF b = 0 THEN a ELSE GCD(b, a % b)

RECURSIVE SumSeq(_)
SumSeq(s) == IF s = <<>> THEN 0 ELSE Head(s) + SumSeq(Tail(s))

\* a double divided by zero is no number (0.0 / 0) or an infinity
NaN == <<0, 0>>
Infinity(sum) == <<IF sum > 0 THEN 1 ELSE 0 - 1, 0>>

\* sum / n as an exact fraction in lowest terms
Quotient(sum, n) ==
    IF n = 0 THEN (IF sum = 0 THEN NaN ELSE Infinity(sum))
    ELSE LET g == GCD(sum, n) IN <<sum \div g, n \div g>>

Zero == <<0, 1>>

\* lines 72-74: sum over the deque, 0.0 when it is empty
MovingAvgUnguarded(w) == Quotient(SumSeq(w), Len(w))
MovingAvg(w) == IF Len(w) = 0 THEN Zero ELSE Quotient(SumSeq(w), Len(w))

NoTick == [symbol |-> 0, price |-> 0, timestamp |-> 0]

Tick(sy, p, ts) == [symbol |-> sy, price |-> p, timestamp |-> ts]

\* ------------------------------------------------------------- SendPrice
\* line 58: std::lock_guard blocks until the mutex is free
MutexUnguarded == TRUE
MutexAvailable == price_mutex = NoCaller

\* line 61, std::vector::push_back: element placed at the size it read
PushBack(v, n, x) == SubSeq(v, 1, n) \o <<x>>

\* lines 67-69
MaintainNoEvict(w) == w
MaintainBack(w) == IF Len(w) > WINDOW_SIZE THEN SubSeq(w, 1, Len(w) - 1) ELSE w
Maintain(w) == IF Len(w) > WINDOW_SIZE THEN Tail(w) ELSE w

\* a handler that turns away a tick without a symbol or a positive price
SendPriceCallValidated(c, t) ==
    /\ sp_pc[c] = "idle"
    /\ sent' = sent + 1
    /\ IF t.symbol > Len(SymbolNames) \/ t.price <= 0
       THEN /\ sp_status' = [sp_status EXCEPT ![c] = "INVALID_ARGUMENT"]
            /\ UNCHANGED <<sp_pc, sp_req>>
       ELSE /\ sp_pc' = [sp_pc EXCEPT ![c] = "lock"]
            /\ sp_req' = [sp_req EXCEPT ![c] = t]
            /\ sp_status' = [sp_status EXCEPT ![c] = "none"]
    /\ UNCHANGED <<price_mutex, received_prices, price_window, stdout, sp_n>>
    /\ UNCHANGED svars

\* the RPC arrives with request t
SendPriceCall(c, t) ==
    /\ sp_pc[c] = "idle"
    /\ sp_pc' = [sp_pc EXCEPT ![c] = "lock"]
    /\ sp_req' = [sp_req EXCEPT ![c] = t]
    /\ sp_status' = [sp_status EXCEPT ![c] = "none"]
    /\ sent' = sent + 1
    /\ UNCHANGED <<price_mutex, received_prices, price_window, stdout, sp_n>>
    /\ UNCHANGED svars

SendPriceLock(c) ==
    /\ sp_pc[c] = "lock"
    /\ MutexAvailable
    /\ price_mutex' = c
    /\ sp_pc' = [sp_pc EXCEPT ![c] = "store_rd"]
    /\ UNCHANGED <<received_prices, price_window, stdout, sent, sp_req, sp_n, sp_status>>
    /\ UNCHANGED svars

SendPriceStoreRead(c) ==
    /\ sp_pc[c] = "store_rd"
    /\ sp_n' = [sp_n EXCEPT ![c] = Len(received_prices)]
    /\ sp_pc' = [sp_pc EXCEPT ![c] = "store_wr"]
    /\ UNCHANGED <<price_mutex, received_prices, price_window, stdout, sent, sp_req, sp_status>>
    /\ UNCHANGED svars

SendPriceStoreWrite(c) ==
    /\ sp_pc[c] = "store_wr"
    /\ received_prices' = PushBack(received_prices, sp_n[c], sp_req[c])
    /\ sp_pc' = [sp_pc EXCEPT ![c] = "push"]
    /\ UNCHANGED <<price_mutex, price_window, stdout, sent, sp_req, sp_n, sp_status>>
    /\ UNCHANGED svars

\* a server whose streams serve the ingested price
SendPricePushShared(c) ==
    /\ sp_pc[c] = "push"
    /\ price_window' = Append(price_window, sp_req[c].price)
    /\ symbol_prices' = [s \in DOMAIN symbol_prices |->
                            [sy \in DOMAIN symbol_prices[s] |->
                                IF sy = sp_req[c].symbol THEN sp_req[c].price
                                ELSE symbol_prices[s][sy]]]
    /\ sp_pc' = [sp_pc EXCEPT ![c] = "maintain"]
    /\ UNCHANGED <<price_mutex, received_prices, stdout, sent, sp_req, sp_n, sp_status>>
    /\ UNCHANGED <<now, rand_state, cancelled, st_pc, st_req, st_it, st_r, st_new,
                   out, st_status>>

SendPricePush(c) ==
    /\ sp_pc[c] = "push"
    /\ price_window' = Append(price_window, sp_req[c].price)
    /\ sp_pc' = [sp_pc EXCEPT ![c] = "maintain"]
    /\ UNCHANGED <<price_mutex, received_prices, stdout, sent, sp_req, sp_n, sp_status>>
    /\ UNCHANGED svars

SendPriceMaintain(c) ==
    /\ sp_pc[c] = "maintain"
    /\ price_window' = Maintain(price_window)
    /\ sp_pc' = [sp_pc EXCEPT ![c] = "avg"]
    /\ UNCHANGED <<price_mutex, received_prices, stdout, sent, sp_req, sp_n, sp_status>>
    /\ UNCHANGED svars

\* lines 71-79: the average over the deque and the record printed with it
SendPriceReport(c) ==
    /\ sp_pc[c] = "avg"
    /\ stdout' = Append(stdout, [symbol    |-> sp_req[c].symbol,
                                 price     |-> sp_req[c].price,
                                 size      |-> Len(price_window),
                                 avg       |-> MovingAvg(price_window),
                                 timestamp |-> sp_req[c].timestamp])
    /\ sp_pc' = [sp_pc EXCEPT ![c] = "ret"]
    /\ UNCHANGED <<price_mutex, received_prices, price_window, sent, sp_req, sp_n, sp_status>>
    /\ UNCHANGED svars

\* a return that leaves the mutex locked
SendPriceReturnLocked(c) ==
    /\ sp_pc[c] = "ret"
    /\ sp_status' = [sp_status EXCEPT ![c] = "OK"]
    /\ sp_pc' = [sp_pc EXCEPT ![c] = "idle"]
    /\ sp_req' = [sp_req EXCEPT ![c] = NoTick]
    /\ sp_n' = [sp_n EXCEPT ![c] = 0]
    /\ UNCHANGED <<price_mutex, received_prices, price_window, stdout, sent>>
    /\ UNCHANGED svars

SendPriceReturn(c) ==
    /\ sp_pc[c] = "ret"
    /\ price_mutex' = IF price_mutex = c THEN NoCaller ELSE price_mutex
    /\ sp_status' = [sp_status EXCEPT ![c] = "OK"]
    /\ sp_pc' = [sp_pc EXCEPT ![c] = "idle"]
    /\ sp_req' = [sp_req EXCEPT ![c] = NoTick]
    /\ sp_n' = [sp_n EXCEPT ![c] = 0]
    /\ UNCHANGED <<received_prices, price_window, stdout, sent>>
    /\ UNCHANGED svars

\* ----------------------------------------------------------- StreamPrices
NoSymbol == 0

\* std::srand / std::rand: the generator of the C standard's sample
\* implementation, state kept to RAND_MAX + 1 values
RandMul == 20077
RandInc == 12345
Seeded(seed) == seed % (RAND_MAX + 1)
NextRand(x) == (RandMul * x + RandInc) % (RAND_MAX + 1)

\* line 121: (std::rand() % 200 - 100) / 100.0, in cents
PriceChangeWide(r) == (r % 400) - 100
PriceChange(r) == (r % 200) - 100

\* lines 100-103: one map entry per distinct requested symbol
Range(q) == {q[i] : i \in 1..Len(q)}
SeedPrices(q) == [sy \in Range(q) |-> InitialPrice]

\* std::map iterates its keys in ascending order
LastKey(m) == IF DOMAIN m = {} THEN NoSymbol
              ELSE CHOOSE k \in DOMAIN m : \A j \in DOMAIN m : k >= j
FirstKey(m) == IF DOMAIN m = {} THEN NoSymbol
               ELSE CHOOSE k \in DOMAIN m : \A j \in DOMAIN m : k <= j
NextKey(m, k) == LET rest == {j \in DOMAIN m : j > k}
                 IN  IF rest = {} THEN NoSymbol
                     ELSE CHOOSE n \in rest : \A j \in rest : n <= j

\* line 111: the loop is left when the context reports cancellation
LoopExitNever(s) == FALSE
LoopExitAlways(s) == TRUE
LoopExit(s) == cancelled[s]

\* line 136
StoreSkipped(m, sy, p) == m
Store(m, sy, p) == [m EXCEPT ![sy] = p]

\* writer->Write fails once the call is dead
WriteOk(s) == ~cancelled[s]

Iterations(s) == IF DOMAIN symbol_prices[s] = {} THEN 0
                 ELSE Len(out[s]) \div Cardinality(DOMAIN symbol_prices[s])

\* the RPC arrives with the symbol list q
StreamPricesCall(s, q) ==
    /\ st_pc[s] = "idle"
    /\ st_req' = [st_req EXCEPT ![s] = q]
    /\ st_pc' = [st_pc EXCEPT ![s] = "srand"]
    /\ UNCHANGED <<now, rand_state, cancelled, symbol_prices, st_it, st_r, st_new, out, st_status>>
    /\ UNCHANGED ivars

\* lines 92-103: reseed the process-wide generator, then fill the map
StreamSeed(s) ==
    /\ st_pc[s] = "srand"
    /\ rand_state' = Seeded(now)
    /\ symbol_prices' = [symbol_prices EXCEPT ![s] = SeedPrices(st_req[s])]
    /\ st_pc' = [st_pc EXCEPT ![s] = "check"]
    /\ UNCHANGED <<now, cancelled, st_req, st_it, st_r, st_new, out, st_status>>
    /\ UNCHANGED ivars

\* lines 107-116 and 141: top of the loop
StreamCheck(s) ==
    /\ st_pc[s] = "check"
    /\ IF LoopExit(s)
       THEN /\ st_pc' = [st_pc EXCEPT ![s] = "done"]
            /\ st_status' = [st_status EXCEPT ![s] = "OK"]
            /\ UNCHANGED st_it
       ELSE /\ Iterations(s) < MaxIter
            /\ st_it' = [st_it EXCEPT ![s] = FirstKey(symbol_prices[s])]
            /\ st_pc' = [st_pc EXCEPT ![s] =
                           IF FirstKey(symbol_prices[s]) = NoSymbol THEN "check" ELSE "rand_rd"]
            /\ UNCHANGED st_status
    /\ UNCHANGED <<now, rand_state, cancelled, st_req, symbol_prices, st_r, st_new, out>>
    /\ UNCHANGED ivars

\* line 121, std::rand: read the generator state ...
StreamRandRead(s) ==
    /\ st_pc[s] = "rand_rd"
    /\ st_r' = [st_r EXCEPT ![s] = rand_state]
    /\ st_pc' = [st_pc EXCEPT ![s] = "rand_wr"]
    /\ UNCHANGED <<now, rand_state, cancelled, st_req, symbol_prices, st_it, st_new, out, st_status>>
    /\ UNCHANGED ivars

\* ... advance it, and lines 118-122: new_price = current_price + change
StreamRandWrite(s) ==
    /\ st_pc[s] = "rand_wr"
    /\ rand_state' = NextRand(st_r[s])
    /\ st_new' = [st_new EXCEPT ![s] =
                     symbol_prices[s][st_it[s]] + PriceChange(NextRand(st_r[s]))]
    /\ st_pc' = [st_pc EXCEPT ![s] = "write"]
    /\ UNCHANGED <<now, cancelled, st_req, symbol_prices, st_it, st_r, out, st_status>>
    /\ UNCHANGED ivars

\* lines 125-133: build the update and hand it to the writer
StreamWrite(s) ==
    /\ st_pc[s] = "write"
    /\ out' = [out EXCEPT ![s] = Append(@, [symbol    |-> st_it[s],
                                            price     |-> st_new[s],
                                            timestamp |-> now,
                                            ok        |-> WriteOk(s)])]
    /\ st_pc' = [st_pc EXCEPT ![s] = "store"]
    /\ UNCHANGED <<now, rand_state, cancelled, st_req, symbol_prices, st_it, st_r, st_new, st_status>>
    /\ UNCHANGED ivars

\* lines 136 and 116: store the new price, step the iterator
StreamStore(s) ==
    /\ st_pc[s] = "store"
    /\ symbol_prices' = [symbol_prices EXCEPT ![s] = Store(@, st_it[s], st_new[s])]
    /\ st_it' = [st_it EXCEPT ![s] = NextKey(symbol_prices[s], st_it[s])]
    /\ st_pc' = [st_pc EXCEPT ![s] =
                   IF NextKey(symbol_prices[s], st_it[s]) = NoSymbol THEN "check" ELSE "rand_rd"]
    /\ st_r' = [st_r EXCEPT ![s] = 0]
    /\ st_new' = [st_new EXCEPT ![s] = 0]
    /\ UNCHANGED <<now, rand_state, cancelled, st_req, out, st_status>>
    /\ UNCHANGED ivars

\* one cancellation flag for all calls
CancelAll(s) ==
    /\ st_pc[s] \notin {"idle", "done"}
    /\ ~cancelled[s]
    /\ cancelled' = [t \in DOMAIN cancelled |-> TRUE]
    /\ UNCHANGED <<now, rand_state, st_pc, st_req, symbol_prices, st_it, st_r, st_new, out, st_status>>
    /\ UNCHANGED ivars

\* the client cancels or disconnects
Cancel(s) ==
    /\ st_pc[s] \notin {"idle", "done"}
    /\ ~cancelled[s]
    /\ cancelled' = [cancelled EXCEPT ![s] = TRUE]
    /\ UNCHANGED <<now, rand_state, st_pc, st_req, symbol_prices, st_it, st_r, st_new, out, st_status>>
    /\ UNCHANGED ivars

\* a second passes
ClockTick ==
    /\ now < MaxTime
    /\ now' = now + 1
    /\ UNCHANGED <<rand_state, cancelled, st_pc, st_req, symbol_prices, st_it, st_r, st_new, out, st_status>>
    /\ UNCHANGED ivars

RECURSIVE SeqsUpTo(_, _)
SeqsUpTo(S, n) == IF n = 0 THEN {<<>>}
                  ELSE LET shorter == SeqsUpTo(S, n - 1)
                       IN  shorter \cup {Append(q, x) : q \in shorter, x \in S}

\* the symbol lists a PriceRequest carries
Requests == SeqsUpTo(Symbols, MaxSymbols)

\* the steps of a call other than the top of its loop
StreamBody(s) ==
    \/ StreamSeed(s)
    \/ StreamRandRead(s)
    \/ StreamRandWrite(s)
    \/ StreamWrite(s)
    \/ StreamStore(s)

StreamStep(s) ==
    \/ StreamSeed(s)
    \/ StreamCheck(s)
    \/ StreamRandRead(s)
    \/ StreamRandWrite(s)
    \/ StreamWrite(s)
    \/ StreamStore(s)

\* ------------------------------------------------------------- environment
\* the ticks the feed sends: the base tick, the base symbol at another price,
\* and another symbol
FeedSet == {Tick(BaseSymbol, BasePrice, ts) : ts \in Timestamps}
           \cup {Tick(sy, p, ts) : sy \in Symbols, p \in Prices \ {BasePrice}, ts \in Timestamps}

IsBase(t) == t.symbol = BaseSymbol /\ t.price = BasePrice

Pending == {c \in Callers : sp_pc[c] \in {"lock", "store_rd", "store_wr"}}

Variants == Cardinality({i \in 1..Len(received_prices) : ~IsBase(received_prices[i])})
            + Cardinality({c \in Pending : ~IsBase(sp_req[c])})

\* requests of the ingestion feed: at most MaxFeed ticks, at most MaxVar off base
FeedTicks ==
    IF sent >= MaxFeed THEN {}
    ELSE {t \in FeedSet : IsBase(t) \/ Variants < MaxVar}

\* ------------------------------------------------------------ specification
InitStore ==
    /\ price_mutex = NoCaller
    /\ received_prices = <<>>
    /\ price_window = <<>>
    /\ stdout = <<>>
    /\ sent = 0
    /\ sp_pc = [c \in Callers |-> "idle"]
    /\ sp_req = [c \in Callers |-> NoTick]
    /\ sp_n = [c \in Callers |-> 0]
    /\ sp_status = [c \in Callers |-> "none"]

\* no StreamPrices call has arrived; an unseeded generator behaves as srand(1)
InitStreams ==
    /\ rand_state = 1
    /\ cancelled = [s \in Sessions |-> FALSE]
    /\ st_pc = [s \in Sessions |-> "idle"]
    /\ st_req = [s \in Sessions |-> <<>>]
    /\ symbol_prices = [s \in Sessions |-> <<>>]
    /\ st_it = [s \in Sessions |-> NoSymbol]
    /\ st_r = [s \in Sessions |-> 0]
    /\ st_new = [s \in Sessions |-> 0]
    /\ out = [s \in Sessions |-> <<>>]
    /\ st_status = [s \in Sessions |-> "none"]

NextIngest ==
    \/ \E c \in Callers : \E t \in FeedTicks : SendPriceCall(c, t)
    \/ \E c \in Callers : SendPriceLock(c)
    \/ \E c \in Callers : SendPriceStoreRead(c)
    \/ \E c \in Callers : SendPriceStoreWrite(c)
    \/ \E c \in Callers : SendPricePush(c)
    \/ \E c \in Callers : SendPriceMaintain(c)
    \/ \E c \in Callers : SendPriceReport(c)
    \/ \E c \in Callers : SendPriceReturn(c)

InitIngest == InitStore /\ InitStreams /\ now = 0

IngestSpec == InitIngest /\ [][NextIngest]_vars

\* one StreamPrices call on an otherwise idle server
Solo == {s \in Sessions : \A t \in Sessions : s <= t}

NextSession ==
    \/ \E s \in Solo : \E q \in Requests : StreamPricesCall(s, q)
    \/ \E s \in Solo : StreamSeed(s)
    \/ \E s \in Solo : StreamCheck(s)
    \/ \E s \in Solo : StreamRandRead(s)
    \/ \E s \in Solo : StreamRandWrite(s)
    \/ \E s \in Solo : StreamWrite(s)
    \/ \E s \in Solo : StreamStore(s)
    \/ \E s \in Solo : Cancel(s)
    \/ ClockTick

InitStream == InitStore /\ InitStreams /\ now \in 0..MaxTime

SessionSpec == InitStream /\ [][NextSession]_vars

\* the call runs on a thread of its own that is scheduled again and again
FairSessionSpec == SessionSpec /\ \A s \in Solo : WF_vars(StreamStep(s))

\* ------------------------------------------------------- the whole server
\* the empty string, a symbol SendPrice takes like any other
EmptySymbol == Len(SymbolNames) + 1

\* requests of the callers of the whole server: a usual tick, or an empty
\* symbol at price 0
ServerTicks ==
    IF sent >= MaxCalls THEN {}
    ELSE {Tick(BaseSymbol, BasePrice, ts) : ts \in Timestamps}
         \cup {Tick(EmptySymbol, 0, ts) : ts \in Timestamps}

\* requests of any content: those, and a negative price
AnyTicks ==
    ServerTicks
    \cup (IF sent >= MaxCalls THEN {}
          ELSE {Tick(sy, 0 - p, ts) : sy \in Symbols \ {BaseSymbol},
                                     p \in Prices \ {BasePrice}, ts \in Timestamps})

RECURSIVE Total(_)
Total(n) == IF n = 0 THEN 0 ELSE Len(out[n]) + Total(n - 1)

\* updates written so far by all sessions
Updates == Total(NumSessions)

\* updates the iteration session s is in has yet to write
Remaining(s) ==
    IF st_pc[s] \in {"rand_rd", "rand_wr", "write"}
    THEN Cardinality({k \in DOMAIN symbol_prices[s] : k >= st_it[s]})
    ELSE IF st_pc[s] = "store"
    THEN Cardinality({k \in DOMAIN symbol_prices[s] : k > st_it[s]})
    ELSE 0

RECURSIVE TotalRemaining(_)
TotalRemaining(n) == IF n = 0 THEN 0 ELSE Remaining(n) + TotalRemaining(n - 1)

\* the client of s lets the loop run on while the update budget lasts
CanIterate(s) ==
    \/ cancelled[s]
    \/ Updates + TotalRemaining(NumSessions) + Cardinality(DOMAIN symbol_prices[s])
          <= MaxUpdates

Init == InitStore /\ InitStreams /\ now = 0

\* SendPrice callers and one StreamPrices call
Next ==
    \/ \E c \in Callers : \E t \in ServerTicks : SendPriceCall(c, t)
    \/ \E c \in Callers : SendPriceLock(c)
    \/ \E c \in Callers : SendPriceStoreRead(c)
    \/ \E c \in Callers : SendPriceStoreWrite(c)
    \/ \E c \in Callers : SendPricePush(c)
    \/ \E c \in Callers : SendPriceMaintain(c)
    \/ \E c \in Callers : SendPriceReport(c)
    \/ \E c \in Callers : SendPriceReturn(c)
    \/ \E s \in Solo : \E q \in Requests : StreamPricesCall(s, q)
    \/ \E s \in Solo : StreamSeed(s)
    \/ \E s \in Solo : CanIterate(s) /\ StreamCheck(s)
    \/ \E s \in Solo : StreamRandRead(s)
    \/ \E s \in Solo : StreamRandWrite(s)
    \/ \E s \in Solo : StreamWrite(s)
    \/ \E s \in Solo : StreamStore(s)
    \/ \E s \in Solo : Cancel(s)

Spec == Init /\ [][Next]_vars

SendPriceStep(c) ==
    \/ SendPriceStoreRead(c)
    \/ SendPriceStoreWrite(c)
    \/ SendPricePush(c)
    \/ SendPriceMaintain(c)
    \/ SendPriceReport(c)
    \/ SendPriceReturn(c)

\* requests for no symbol or for one
ShortRequests == {q \in Requests : Len(q) <= 1}

\* the usual tick
BaseTicks ==
    IF sent >= MaxCalls THEN {}
    ELSE {Tick(BaseSymbol, BasePrice, ts) : ts \in Timestamps}

\* SendPrice callers that contend for the mutex next to one StreamPrices call
NextContention ==
    \/ \E c \in Callers : \E t \in BaseTicks : SendPriceCall(c, t)
    \/ \E c \in Callers : SendPriceLock(c)
    \/ \E c \in Callers : SendPriceStoreRead(c)
    \/ \E c \in Callers : SendPriceStoreWrite(c)
    \/ \E c \in Callers : SendPricePush(c)
    \/ \E c \in Callers : SendPriceMaintain(c)
    \/ \E c \in Callers : SendPriceReport(c)
    \/ \E c \in Callers : SendPriceReturn(c)
    \/ \E s \in Solo : \E q \in ShortRequests : StreamPricesCall(s, q)
    \/ \E s \in Solo : StreamSeed(s)
    \/ \E s \in Solo : CanIterate(s) /\ StreamCheck(s)
    \/ \E s \in Solo : StreamRandRead(s)
    \/ \E s \in Solo : StreamRandWrite(s)
    \/ \E s \in Solo : StreamWrite(s)
    \/ \E s \in Solo : StreamStore(s)
    \/ \E s \in Solo : Cancel(s)

\* every call runs on a thread that keeps being scheduled, and a caller
\* blocked on the mutex gets it if it is free again and again
FairSpec ==
    /\ Init /\ [][NextContention]_vars
    /\ \A c \in Callers : WF_vars(SendPriceStep(c)) /\ SF_vars(SendPriceLock(c))
    /\ \A s \in Solo : WF_vars(CanIterate(s) /\ StreamCheck(s))
                          /\ WF_vars(StreamBody(s))

\* SendPrice callers alone, with requests of any content
NextAnyTick ==
    \/ \E c \in Callers : \E t \in AnyTicks : SendPriceCall(c, t)
    \/ \E c \in Callers : SendPriceLock(c)
    \/ \E c \in Callers : SendPriceStoreRead(c)
    \/ \E c \in Callers : SendPriceStoreWrite(c)
    \/ \E c \in Callers : SendPricePush(c)
    \/ \E c \in Callers : SendPriceMaintain(c)
    \/ \E c \in Callers : SendPriceReport(c)
    \/ \E c \in Callers : SendPriceReturn(c)

AnyTickSpec == Init /\ [][NextAnyTick]_vars

\* concurrent StreamPrices calls on a server that takes no ticks
NextStreams ==
    \/ \E s \in Sessions : \E q \in ShortRequests : StreamPricesCall(s, q)
    \/ \E s \in Sessions : StreamSeed(s)
    \/ \E s \in Sessions : CanIterate(s) /\ StreamCheck(s)
    \/ \E s \in Sessions : StreamRandRead(s)
    \/ \E s \in Sessions : StreamRandWrite(s)
    \/ \E s \in Sessions : StreamWrite(s)
    \/ \E s \in Sessions : StreamStore(s)
    \/ \E s \in Sessions : Cancel(s)

StreamsSpec == Init /\ [][NextStreams]_vars

\* two concurrent StreamPrices calls next to the calls of one SendPrice caller
FirstCaller == {c \in Callers : \A d \in Callers : c <= d}

Pair == {s \in Sessions : Cardinality({t \in Sessions : t < s}) < 2}

NextIsolation ==
    \/ \E s \in Pair : \E q \in ShortRequests : StreamPricesCall(s, q)
    \/ \E s \in Pair : StreamSeed(s)
    \/ \E s \in Pair : CanIterate(s) /\ StreamCheck(s)
    \/ \E s \in Pair : StreamRandRead(s)
    \/ \E s \in Pair : StreamRandWrite(s)
    \/ \E s \in Pair : StreamWrite(s)
    \/ \E s \in Pair : StreamStore(s)
    \/ \E s \in Pair : Cancel(s)
    \/ \E c \in FirstCaller : \E t \in BaseTicks : SendPriceCall(c, t)
    \/ \E c \in FirstCaller : SendPriceLock(c)
    \/ \E c \in FirstCaller : SendPriceStep(c)

IsolationSpec == Init /\ [][NextIsolation]_vars

\* the average of lines 72-74 on its own: one call stands before line 72 with
\* the deque holding any window, the empty one included
Windows == SeqsUpTo(Prices, MaxWindow)

InitAverage ==
    /\ price_window \in Windows
    /\ received_prices = <<>>
    /\ stdout = <<>>
    /\ sent = 1
    /\ \E c \in FirstCaller :
          /\ price_mutex = c
          /\ sp_pc = [d \in Callers |-> IF d = c THEN "avg" ELSE "idle"]
    /\ sp_req = [c \in Callers |-> NoTick]
    /\ sp_n = [c \in Callers |-> 0]
    /\ sp_status = [c \in Callers |-> "none"]
    /\ InitStreams
    /\ now = 0

NextAverage ==
    \/ \E c \in Callers : SendPriceReport(c)
    \/ \E c \in Callers : SendPriceReturn(c)

AverageSpec == InitAverage /\ [][NextAverage]_vars

\* ==================================================================== claims
LastN(s, n) == SubSeq(s, Len(s) - n + 1, Len(s))

PricesOf(h) == [i \in 1..Len(h) |-> h[i].price]

\* the ticks of symbol sy among the first i ingested
TicksOf(sy, i) == SelectSeq(SubSeq(received_prices, 1, i), LAMBDA t : t.symbol = sy)

\* mean of the last min(WINDOW_SIZE, Len(h)) prices of the tick sequence h
MeanOfLast(h) == MovingAvg(LastN(PricesOf(h), Min(WINDOW_SIZE, Len(h))))

SameSymbolUpTo(i) == \A j \in 1..i : received_prices[j].symbol = received_prices[1].symbol

AllReturned == \A c \in Callers : sp_pc[c] = "idle"

InCritical(c) == sp_pc[c] \in {"store_rd", "store_wr", "push", "maintain", "avg", "ret"}

\* C1: the size and average a SendPrice reports for symbol S are those of the
\* last min(20, k) prices ingested for S alone, k the number of ingests of S.
C1_PerSymbolWindow ==
    \A i \in 1..Len(stdout) :
        LET h == TicksOf(stdout[i].symbol, i)
        IN  /\ stdout[i].size = Min(WINDOW_SIZE, Len(h))
            /\ stdout[i].avg = MeanOfLast(h)

\* C2: when every SendPrice so far carried the same symbol, the n-th call
\* reports a window size of min(20, n) (stated of the record just printed).
C2_SizeIsMinCapacityCount ==
    LET n == Len(stdout)
    IN  (n >= 1 /\ n <= Len(received_prices) /\ SameSymbolUpTo(n))
            => stdout[n].size = Min(WINDOW_SIZE, n)

C2_Witness ==
    /\ Len(stdout) > WINDOW_SIZE
    /\ SameSymbolUpTo(Len(stdout))
    /\ stdout[WINDOW_SIZE + 1].size = WINDOW_SIZE
    /\ stdout[1].size = 1

\* C3: from the 20th ingest on, each reported moving average is the mean of
\* exactly the 20 most recently ingested prices, the current one included
\* (stated of the record just printed).
C3_AverageOfNewestTwenty ==
    LET n == Len(stdout)
    IN  (n >= WINDOW_SIZE /\ n <= Len(received_prices))
            => stdout[n].avg = Quotient(SumSeq(SubSeq(PricesOf(received_prices),
                                                      n - WINDOW_SIZE + 1, n)), WINDOW_SIZE)

C3_Witness ==
    /\ Len(stdout) = WINDOW_SIZE + 1
    /\ received_prices[1].price # BasePrice
    /\ stdout[WINDOW_SIZE].avg # <<BasePrice, 1>>
    /\ stdout[WINDOW_SIZE + 1].avg = <<BasePrice, 1>>

\* C4: once all parallel SendPrice calls have returned, the history holds one
\* entry per call, and no step changes or removes an entry already stored.
C4_NoLostUpdate ==
    /\ [](AllReturned => Len(received_prices) = sent)
    /\ [][/\ Len(received_prices') >= Len(received_prices)
          /\ SubSeq(received_prices', 1, Len(received_prices)) = received_prices]_vars

C4_Witness ==
    /\ AllReturned
    /\ sent = MaxFeed
    /\ Len(received_prices) = MaxFeed
    /\ \A c \in Callers : sp_status[c] = "OK"

\* C5: the steps of one SendPrice are never interleaved with another's: at most
\* one call is past the lock, a call averages a window that ends with its own
\* price and holds at most 20, and every record is, when printed, the one the
\* serial order of the history produces.
C5_IngestAtomic ==
    /\ \A c, d \in Callers : (InCritical(c) /\ InCritical(d)) => c = d
    /\ \A c \in Callers : sp_pc[c] = "avg" =>
          /\ Len(price_window) \in 1..WINDOW_SIZE
          /\ price_window[Len(price_window)] = sp_req[c].price
          /\ received_prices[Len(received_prices)] = sp_req[c]
    /\ LET i == Len(stdout)
       IN  i >= 1 =>
              /\ i <= Len(received_prices)
              /\ stdout[i].symbol = received_prices[i].symbol
              /\ stdout[i].price = received_prices[i].price
              /\ stdout[i].size = Min(WINDOW_SIZE, i)
              /\ stdout[i].avg = MeanOfLast(SubSeq(received_prices, 1, i))

C5_Witness ==
    \E c, d \in Callers :
        /\ c # d
        /\ sp_pc[c] = "avg"
        /\ sp_pc[d] = "lock"
        /\ Len(stdout) >= 1
        /\ MovingAvg(price_window) # stdout[Len(stdout)].avg

\* ---------------------------------------------------------- streaming claims
Failed(s) == \E i \in 1..Len(out[s]) : ~out[s][i].ok

\* the updates of session s for symbol sy, in emission order
UpdatesOf(s, sy) == SelectSeq(out[s], LAMBDA u : u.symbol = sy)

\* the price session s emitted for the symbol of its i-th update the time before
PrevPrice(s, i) ==
    LET before == {j \in 1..(i - 1) : out[s][j].symbol = out[s][i].symbol}
    IN  IF before = {} THEN InitialPrice
        ELSE out[s][CHOOSE j \in before : \A k \in before : k <= j].price

StepOf(s, i) == out[s][i].price - PrevPrice(s, i)

\* the steps applied to symbol sy by session s, in order
StepsOf(s, sy) ==
    LET ups == UpdatesOf(s, sy)
    IN  [k \in 1..Len(ups) |->
            ups[k].price - (IF k = 1 THEN InitialPrice ELSE ups[k - 1].price)]

\* C6: after a Write to the client has failed, the loop attempts no further
\* write and performs no further price update.
C6_WriteFailureStops ==
    [][\A s \in Sessions :
          Failed(s) => /\ out'[s] = out[s]
                       /\ symbol_prices'[s] = symbol_prices[s]]_vars

\* C7: after cancellation at most one more update per tracked symbol is
\* emitted, none once the loop has seen IsCancelled(), and the call returns.
C7_CancelEndsPromptly ==
    /\ [](\A s \in Sessions : \A i, j \in 1..Len(out[s]) :
            (i < j /\ ~out[s][i].ok /\ ~out[s][j].ok)
                => out[s][i].symbol # out[s][j].symbol)
    /\ [][\A s \in Sessions : st_pc[s] = "done" => out'[s] = out[s]]_vars
    /\ \A s \in Sessions : cancelled[s] ~> (st_pc[s] = "done")

C7_Witness ==
    \E s \in Sessions :
        /\ st_pc[s] = "done"
        /\ Len(out[s]) >= 2
        /\ out[s][1].ok
        /\ ~out[s][Len(out[s])].ok

\* C8: a StreamPrices call returns only when its context is cancelled, and
\* the status it returns is OK.
C8_ReturnsOnlyCancelledOK ==
    \A s \in Sessions :
        /\ st_pc[s] = "done" => (cancelled[s] /\ st_status[s] = "OK")
        /\ st_status[s] # "none" => st_pc[s] = "done"

C8_Witness ==
    \E s \in Sessions :
        /\ st_pc[s] = "done"
        /\ st_status[s] = "OK"
        /\ Len(out[s]) >= 1
        /\ \A i \in 1..Len(out[s]) : out[s][i].ok

\* C9: every update carries the symbol's previously emitted price (100.00 at
\* first) plus a step of -1.00..+1.00 in cents; after k iterations a symbol's
\* stored price is 100.00 plus the sum of its k steps.
C9_PriceIsPreviousPlusStep ==
    \A s \in Sessions :
        /\ \A i \in 1..Len(out[s]) : StepOf(s, i) \in (0 - MaxStep)..MaxStep
        /\ st_pc[s] \in {"check", "done"} =>
              \A sy \in DOMAIN symbol_prices[s] :
                  /\ Len(StepsOf(s, sy)) = Iterations(s)
                  /\ symbol_prices[s][sy] = InitialPrice + SumSeq(StepsOf(s, sy))

C9_Witness ==
    \E s \in Sessions :
        /\ st_pc[s] = "check"
        /\ Cardinality(DOMAIN symbol_prices[s]) = 2
        /\ Iterations(s) = 2
        /\ \A sy \in DOMAIN symbol_prices[s] :
              /\ symbol_prices[s][sy] # InitialPrice
              /\ symbol_prices[s][sy] # UpdatesOf(s, sy)[1].price

\* C10: the steps a session can apply are exactly -1.00, -0.99, ..., +1.00,
\* both endpoints included.
C10_StepSetIsFullRange ==
    \A s \in Sessions :
        st_pc[s] = "rand_rd" =>
            {PriceChange(NextRand(x)) : x \in 0..RAND_MAX} = (0 - MaxStep)..MaxStep

\* ------------------------------------------------------- claims C11 to C20
\* position of k among the members of S in ascending order
Rank(k, S) == Cardinality({j \in S : j <= k})

\* C11: the updates of a session run through its distinct requested symbols
\* in ascending order, once each per iteration, whatever the order and the
\* repetitions of the request.
C11_OneUpdatePerSymbolInOrder ==
    \A s \in Sessions :
        LET K == Range(st_req[s])
            n == Cardinality(K)
        IN  /\ \A i \in 1..Len(out[s]) :
                  /\ out[s][i].symbol \in K
                  /\ Rank(out[s][i].symbol, K) = ((i - 1) % n) + 1
            /\ (st_pc[s] \in {"check", "done"} /\ n > 0) => Len(out[s]) % n = 0

C11_Witness ==
    \E s \in Sessions :
        /\ Len(st_req[s]) = 2
        /\ st_req[s][1] > st_req[s][2]
        /\ st_pc[s] = "check"
        /\ ~cancelled[s]
        /\ Len(out[s]) = 4

\* C12: a StreamPrices call with an empty symbol list never emits an update,
\* and returns OK once its context is cancelled.
C12_EmptyRequestEmitsNothing ==
    /\ [](\A s \in Sessions : st_req[s] = <<>> => out[s] = <<>>)
    /\ \A s \in Sessions :
          (st_pc[s] # "idle" /\ st_req[s] = <<>> /\ cancelled[s])
              ~> (st_pc[s] = "done" /\ st_status[s] = "OK" /\ out[s] = <<>>)

C12_Witness ==
    \E s \in Sessions :
        /\ st_req[s] = <<>>
        /\ st_pc[s] = "done"
        /\ st_status[s] = "OK"
        /\ out[s] = <<>>

\* the value of the generator after srand(seed) and k calls of std::rand
RECURSIVE Drawn(_, _)
Drawn(seed, k) == IF k = 0 THEN Seeded(seed) ELSE NextRand(Drawn(seed, k - 1))

\* C13: no step that changes ingestion state changes a session's request,
\* stored prices or updates, no step that changes streaming state changes the
\* history or the window, and the i-th price a session emits is fixed by its
\* seed and its own earlier prices whatever ticks were ingested.
C13_IngestAndStreamsDisjoint ==
    /\ [][/\ (ivars' # ivars) =>
                 (st_req' = st_req /\ symbol_prices' = symbol_prices /\ out' = out)
          /\ (svars' # svars) =>
                 (received_prices' = received_prices /\ price_window' = price_window)]_vars
    /\ [](\A s \in Solo : \A i \in 1..Len(out[s]) :
             out[s][i].price = PrevPrice(s, i) + PriceChange(Drawn(now, i)))

C13_Witness ==
    \E c \in Callers : \E s \in Solo :
        /\ sp_pc[c] = "maintain"
        /\ Len(received_prices) = 2
        /\ st_pc[s] = "store"
        /\ Len(out[s]) = 2
        /\ out[s][1].price # InitialPrice

InLoopBody(s) == st_pc[s] \in {"srand", "rand_rd", "rand_wr", "write", "store"}

\* C14: a SendPrice call in progress can always be continued by some caller,
\* every SendPrice call that starts gets the lock and returns OK, and a
\* StreamPrices call can take its next step whoever holds the lock.
C14_NoDeadlockNoBlocking ==
    /\ []((\E c \in Callers : sp_pc[c] # "idle") =>
             (\E c \in Callers : ENABLED (SendPriceLock(c) \/ SendPriceStep(c))))
    /\ [](\A s \in Solo :
             /\ InLoopBody(s) => ENABLED StreamBody(s)
             /\ (st_pc[s] = "check" /\ cancelled[s]) => ENABLED StreamCheck(s))
    /\ \A c \in Callers : (sp_pc[c] = "lock") ~> (price_mutex = c)
    /\ \A c \in Callers : (sp_pc[c] # "idle") ~> (sp_pc[c] = "idle" /\ sp_status[c] = "OK")

C14_Witness ==
    \E c, d \in Callers : \E s \in Solo :
        /\ sp_pc[c] = "lock"
        /\ price_mutex = d
        /\ sp_pc[d] = "push"
        /\ st_pc[s] = "rand_wr"
        /\ ~cancelled[s]

Stored(c) == sp_pc[c] \in {"maintain", "avg", "ret"}

\* C15: whatever the tick, a SendPrice call ends only by returning OK after it
\* has appended the tick to the history and pushed its price into the window;
\* no call ends otherwise and no status other than OK is returned.
C15_AlwaysAcknowledged ==
    /\ [](\A c \in Callers : Stored(c) =>
             /\ received_prices[Len(received_prices)] = sp_req[c]
             /\ price_window[Len(price_window)] = sp_req[c].price)
    /\ [][\A c \in Callers : (sp_pc[c] # "idle" /\ sp_pc'[c] = "idle") =>
             (sp_pc[c] = "ret" /\ sp_status'[c] = "OK")]_vars
    /\ [](\A c \in Callers : sp_status[c] \in {"none", "OK"})
    /\ [](AllReturned => /\ Len(received_prices) = sent
                         /\ Len(price_window) = Min(WINDOW_SIZE, sent))

C15_Witness ==
    /\ AllReturned
    /\ sent = MaxCalls
    /\ \A c \in Callers : sp_status[c] = "OK"
    /\ \E i \in 1..Len(received_prices) :
          received_prices[i].symbol = EmptySymbol /\ price_window[i] = 0
    /\ \E i \in 1..Len(received_prices) :
          received_prices[i].price < 0 /\ price_window[i] < 0

\* what belongs to the StreamPrices call s alone
SessionState(s) == <<cancelled[s], st_pc[s], st_req[s], symbol_prices[s], st_it[s],
                     st_r[s], st_new[s], out[s], st_status[s]>>

\* the step is the cancellation, a failing write or the return of call t
EndingStep(t) ==
    \/ cancelled'[t] # cancelled[t]
    \/ st_pc[t] = "write" /\ st_pc'[t] = "store" /\ ~WriteOk(t)
    \/ st_pc[t] = "check" /\ st_pc'[t] = "done"

\* C16: the map of a StreamPrices call changes only in a step of that call;
\* the cancellation, a failing write or the return of another call leaves the
\* call's own state, the generator, the clock and all SendPrice state as they
\* are; and a call inside its loop, like a SendPrice call in progress, can
\* always take its next step.
C16_SessionsIsolated ==
    /\ [][\A s \in Sessions :
             /\ (symbol_prices'[s] # symbol_prices[s]) =>
                    (st_pc[s] \in {"srand", "store"} /\ st_pc'[s] # st_pc[s])
             /\ \A t \in Sessions \ {s} : EndingStep(t) =>
                    /\ SessionState(s)' = SessionState(s)
                    /\ rand_state' = rand_state
                    /\ now' = now
                    /\ ivars' = ivars]_vars
    /\ [](\A s \in Sessions : InLoopBody(s) => ENABLED StreamBody(s))
    /\ [](\A c \in FirstCaller :
             sp_pc[c] # "idle" => ENABLED (SendPriceLock(c) \/ SendPriceStep(c)))

C16_Witness ==
    \E s, t \in Sessions : \E c \in FirstCaller :
        /\ s # t
        /\ st_pc[t] = "done"
        /\ Failed(t)
        /\ ~cancelled[s]
        /\ st_pc[s] = "check"
        /\ Len(out[s]) = 1
        /\ out[s][1].ok
        /\ sp_pc[c] = "avg"
        /\ Len(received_prices) = 2

\* C17: while no SendPrice call holds the mutex the window holds at most
\* WINDOW_SIZE prices and at most as many as the history holds ticks, and
\* every step leaves the ticks already in the history in place.
C17_WindowWithinCapacityAndHistory ==
    /\ [](price_mutex = NoCaller =>
             /\ Len(price_window) <= WINDOW_SIZE
             /\ Len(price_window) <= Len(received_prices))
    /\ [][/\ Len(received_prices') >= Len(received_prices)
          /\ \A i \in 1..Len(received_prices) : received_prices'[i] = received_prices[i]]_vars

C17_Witness ==
    /\ price_mutex = NoCaller
    /\ Len(price_window) = WINDOW_SIZE
    /\ Len(received_prices) = WINDOW_SIZE + 1
    /\ Len(stdout) = WINDOW_SIZE + 1

\* C18: the average computed of an empty window is 0.0, and the average of
\* any window is a number: no result comes from a division by a size of zero.
C18_EmptyWindowAveragesZero ==
    \A i \in 1..Len(stdout) :
        /\ stdout[i].size = 0 => stdout[i].avg = Zero
        /\ stdout[i].avg[2] # 0

C18_Witness ==
    /\ price_window = <<>>
    /\ Len(stdout) = 1
    /\ stdout[1].size = 0
    /\ stdout[1].avg = Zero
    /\ AllReturned

\* C19: while no SendPrice call holds the mutex, the one window of the server
\* holds the prices of the last min(20, n) of the n ticks in the history, in
\* their order and whatever their symbols; the record the n-th call prints
\* reports the size min(20, n), which is at least 1 (stated of the record
\* just printed).
C19_ServerWideWindow ==
    /\ price_mutex = NoCaller =>
          price_window = LastN(PricesOf(received_prices),
                               Min(WINDOW_SIZE, Len(received_prices)))
    /\ LET n == Len(stdout)
       IN  n >= 1 => /\ stdout[n].size = Min(WINDOW_SIZE, n)
                     /\ stdout[n].size >= 1

C19_Witness ==
    /\ price_mutex = NoCaller
    /\ Len(received_prices) = WINDOW_SIZE + 1
    /\ Len(stdout) = WINDOW_SIZE + 1
    /\ \E i \in 2..Len(received_prices) :
          /\ received_prices[i].symbol # received_prices[1].symbol
          /\ price_window[i - 1] = received_prices[i].price
          /\ received_prices[i].price # BasePrice
    /\ stdout[WINDOW_SIZE + 1].size = WINDOW_SIZE

\* C20: the steps a session applies are those its own seed gives in order,
\* whatever other sessions start or draw meanwhile: its i-th step is the step
\* of the i-th value drawn after srand with the time it was called at.
C20_DrawsUnaffectedByOthers ==
    \A s \in Sessions : \A i \in 1..Len(out[s]) :
        StepOf(s, i) = PriceChange(Drawn(now, i))

====
